---- MODULE Spec2Model ----
(***************************************************************************)
(* Session lifecycle and booking-message routes of the ASAP Roadworthy     *)
(* backend (Express + Prisma + ServiceM8).                                 *)
(*                                                                         *)
(* State: the relational store (User, Session, BookingMessage), the wall   *)
(* clock, the tokens handed to clients in cookies, and the response to the *)
(* last request.  One action per route; the external ServiceM8 API is the  *)
(* environment: each outbound call draws its reply.  `db` tells whether    *)
(* the database answers, and `flight` is a request to a protected route on *)
(* its way through the two middleware runs and the handler, for the runs   *)
(* in which other requests come between them.                              *)
(* Time is counted in seconds (the resolution of the JWT iat/exp claims).  *)
(***************************************************************************)
EXTENDS Integers, Sequences, FiniteSets, TLC

VARIABLES users, sessions, bookingMessages, now, ops, issued, res, db, flight

vars == <<users, sessions, bookingMessages, now, ops, issued, res, db, flight>>

store == <<users, sessions, bookingMessages>>

----------------------------------------------------------------------------
(* Bounds of the model *)

\* The longest run explored, counted in steps that add to the state: clock
\* ticks, sessions opened and messages saved.
MaxOps == 4

----------------------------------------------------------------------------
(* Program constants, in seconds *)

\* jwt.sign(..., { expiresIn: "1h" })
JwtExpiresIn == 3600

\* expiresAt: new Date(Date.now() + 60 * 60 * 1000)
SessionLifetime == 3600

\* maxAge: 7 * 24 * 60 * 60 * 1000
CookieMaxAge == 604800

----------------------------------------------------------------------------
(* Values *)

Null == "null"

Undefined == "undefined"

UserIds == {1, 2}

Sm8Uuids == {"co-1", "co-2"}

BookingUuids == {"job-1", "job-2"}

\* How far the clock moves between two requests: to the next second, or
\* past a token's lifetime.
TickSteps == {1, JwtExpiresIn}

bcryptHash(password) == <<"bcrypt", password>>

\* The User rows; sm8Uuid is the only column a route writes.
UserRow(id, name, email, phone, password) ==
    [id |-> id, name |-> name, email |-> email, phone |-> phone,
     password |-> bcryptHash(password), sm8Uuid |-> Null]

InitUsers ==
    (1 :> UserRow(1, "Ann", "ann@x", "0411", "pw-ann")) @@
    (2 :> UserRow(2, "Bob", "bob@x", "0422", "pw-bob"))

----------------------------------------------------------------------------
(* Tokens *)

NoToken == [kind |-> "none", sm8Uuid |-> Null, iat |-> 0, exp |-> 0, sig |-> "none"]

\* A cookie value that is no JWT at all.
GarbageToken == [kind |-> "garbage", sm8Uuid |-> Null, iat |-> 0, exp |-> 0, sig |-> "none"]

\* jwt.sign({ sm8Uuid }, JWT_SECRET, { expiresIn: "1h" }) at clock time t:
\* HS256 is deterministic, so the token is a function of payload and iat.
jwtSign(sm8Uuid, t) ==
    [kind |-> "jwt", sm8Uuid |-> sm8Uuid, iat |-> t, exp |-> t + JwtExpiresIn,
     sig |-> "JWT_SECRET"]

\* The same token re-signed by someone who does not hold JWT_SECRET.
Forged(token) == [token EXCEPT !.sig = "other-secret"]

\* jwt.verify with ignoreExpiration.
jwtVerifyIgnoreExpiration(token, t) ==
    /\ token.kind = "jwt"
    /\ token.sig = "JWT_SECRET"

\* jwt.verify(token, JWT_SECRET) at clock time t does not throw.
jwtVerify(token, t) ==
    /\ token.kind = "jwt"
    /\ token.sig = "JWT_SECRET"
    /\ t < token.exp

\* What a client can put in the cookie: nothing, junk, a token the server
\* issued, or a forgery of one.
CookieValues == {NoToken, GarbageToken} \cup issued \cup {Forged(t) : t \in issued}

\* JavaScript truthiness of a token-valued expression.
Truthy(token) == token.kind # "none"

----------------------------------------------------------------------------
(* Responses *)

NoCookie == [set |-> FALSE, cleared |-> FALSE, value |-> NoToken, maxAge |-> 0]

Response(route, by, status, error) ==
    [route |-> route, by |-> by, status |-> status, error |-> error,
     cookie |-> NoCookie, body |-> <<>>, extCalls |-> 0]

\* The static error bodies of the routes.
InvalidCredentials == "Invalid email or phone and password"

InternalError == "Internal server error"

----------------------------------------------------------------------------
(* Request headers and the replies of the external API *)

NoHeader == [scheme |-> "none", token |-> NoToken]

\* The outcome of one fetch(): the promise rejects (net = "reject"), or a
\* response arrives with its ok flag, status, content type and a body that
\* parses as JSON (parse) to `data`, or does not.
Reply(net, ok, status, parse, data) ==
    [net |-> net, ok |-> ok, status |-> status, parse |-> parse,
     contentType |-> Null, data |-> data]

NoReply == Reply("none", FALSE, 0, FALSE, <<>>)

NetReject == Reply("reject", FALSE, 0, FALSE, <<>>)

HttpError(status, data) == Reply("response", FALSE, status, TRUE, data)

BadJson == Reply("response", TRUE, 200, FALSE, <<>>)

Json(data) == Reply("response", TRUE, 200, TRUE, data)

----------------------------------------------------------------------------
(* Store access *)

\* prisma.user.findFirst({ where: { OR: [{ email }, { phone }] } }): the
\* rows that match; which one comes first is the database's choice.
userFindFirst(identifier) ==
    {u \in UserIds : users[u].email = identifier \/ users[u].phone = identifier}

bcryptCompare(password, hash) == hash = bcryptHash(password)

\* A User table without the unique index on sm8Uuid.
userUpdateNeverConflicts(id, sm8Uuid) == FALSE

\* The unique index User_sm8Uuid_key rejects the update.
userUpdateConflict(id, sm8Uuid) ==
    \E v \in UserIds \ {id} : users[v].sm8Uuid = sm8Uuid

\* An update that writes the column only while it is unset.
userUpdateIfUnset(id, sm8Uuid) ==
    IF users[id].sm8Uuid = Null
    THEN [users EXCEPT ![id].sm8Uuid = sm8Uuid]
    ELSE users

\* prisma.user.update({ where: { id }, data: { sm8Uuid } }).
userUpdate(id, sm8Uuid) == [users EXCEPT ![id].sm8Uuid = sm8Uuid]

\* prisma.session.findFirst / findUnique({ where: { token } }).
sessionFind(token) == {s \in sessions : s.token = token}

\* Session.token is unique (it is the key findUnique looks up).
sessionCreateConflict(token) == sessionFind(token) # {}

\* A row that lives as long as the cookie.
sessionCreateForCookieLifetime(userId, token) ==
    sessions \cup {[userId |-> userId, token |-> token,
                    expiresAt |-> now + CookieMaxAge]}

sessionCreate(userId, token) ==
    sessions \cup {[userId |-> userId, token |-> token,
                    expiresAt |-> now + SessionLifetime]}

\* deleteMany over every session of the token's user.
sessionDeleteOfUser(token) ==
    {s \in sessions : \A r \in sessions : r.token = token => r.userId # s.userId}

\* deleteMany that matches no row.
sessionDeleteNone(token) == sessions

\* prisma.session.deleteMany({ where: { token } }).
sessionDeleteMany(token) == {s \in sessions : s.token # token}

----------------------------------------------------------------------------
(* POST /api/auth/login *)

Identifiers == {"ann@x", "0411", "bob@x", "0422", "nobody@x"}

Passwords == {"pw-ann", "pw-bob", "pw-wrong", Undefined}

Contact(companyUuid) == [company_uuid |-> companyUuid]

\* What companycontact.json?$filter=email eq ... can answer.
ContactReplies ==
    {NetReject, HttpError(500, <<>>), BadJson, Json(<<>>), Json(<<Contact(Null)>>)}
        \cup {Json(<<Contact(c)>>) : c \in Sm8Uuids}

\* client[0].company_uuid; client[0] of an empty list is undefined and the
\* property read throws.
clientUuidThrows(reply) == Len(reply.data) = 0

clientUuid(reply) == reply.data[1].company_uuid

\* The handler with its two writes in one transaction: a failing
\* session.create takes the user.update back.
loginAsAtomic(user, password, reply) ==
    LET fail(status, error, calls) ==
            [users |-> users, sessions |-> sessions,
             res |-> [Response("login", "handler", status, error)
                        EXCEPT !.extCalls = calls]]
    IN  IF password = Undefined THEN fail(500, InternalError, 0)
        ELSE IF ~bcryptCompare(password, user.password)
            THEN fail(404, InvalidCredentials, 0)
        ELSE IF reply.net = "reject" THEN fail(500, InternalError, 1)
        ELSE IF ~reply.ok THEN fail(500, "Failed to verify user with ServiceM8", 1)
        ELSE IF ~reply.parse THEN fail(500, InternalError, 1)
        ELSE IF clientUuidThrows(reply) THEN fail(500, InternalError, 1)
        ELSE IF clientUuid(reply) = Null
            THEN fail(404, "User not found in ServiceM8", 1)
        ELSE IF userUpdateConflict(user.id, clientUuid(reply))
            THEN fail(500, InternalError, 1)
        ELSE
            LET token == jwtSign(clientUuid(reply), now)
            IN  IF sessionCreateConflict(token)
                THEN fail(500, InternalError, 1)
                ELSE [users |-> userUpdate(user.id, clientUuid(reply)),
                      sessions |-> sessionCreate(user.id, token),
                      res |-> [Response("login", "handler", 200, "")
                                 EXCEPT !.extCalls = 1,
                                        !.cookie = [set |-> TRUE, cleared |-> FALSE,
                                                    value |-> token,
                                                    maxAge |-> CookieMaxAge]]]

\* A handler that opens the session before it has verified anything.
loginAsSessionFirst(user, password, reply) ==
    [users |-> users,
     sessions |-> sessionCreate(user.id, jwtSign(user.sm8Uuid, now)),
     res |-> Response("login", "handler", 404, InvalidCredentials)]

\* The handler from the found user on; `user` is a User row.
loginAs(user, password, reply) ==
    LET fail(status, error, calls) ==
            [users |-> users, sessions |-> sessions,
             res |-> [Response("login", "handler", status, error)
                        EXCEPT !.extCalls = calls]]
    IN  IF password = Undefined THEN fail(500, InternalError, 0)
        ELSE IF ~bcryptCompare(password, user.password)
            THEN fail(404, InvalidCredentials, 0)
        ELSE IF reply.net = "reject" THEN fail(500, InternalError, 1)
        ELSE IF ~reply.ok THEN fail(500, "Failed to verify user with ServiceM8", 1)
        ELSE IF ~reply.parse THEN fail(500, InternalError, 1)
        ELSE IF clientUuidThrows(reply) THEN fail(500, InternalError, 1)
        ELSE IF clientUuid(reply) = Null
            THEN fail(404, "User not found in ServiceM8", 1)
        ELSE IF userUpdateConflict(user.id, clientUuid(reply))
            THEN fail(500, InternalError, 1)
        ELSE
            LET updated == userUpdate(user.id, clientUuid(reply))
                token == jwtSign(clientUuid(reply), now)
            IN  IF sessionCreateConflict(token)
                THEN [fail(500, InternalError, 1) EXCEPT !.users = updated]
                ELSE [users |-> updated,
                      sessions |-> sessionCreate(user.id, token),
                      res |-> [Response("login", "handler", 200, "")
                                 EXCEPT !.extCalls = 1,
                                        !.cookie = [set |-> TRUE, cleared |-> FALSE,
                                                    value |-> token,
                                                    maxAge |-> CookieMaxAge]]]

\* login, telling the caller that no user has the identifier.
loginNamesUnknownUser(found, password, reply) ==
    IF found = 0
    THEN [users |-> users, sessions |-> sessions,
          res |-> Response("login", "handler", 404, "User not found")]
    ELSE loginAs(users[found], password, reply)

\* `found` is the result of findFirst: a user id, or 0 for null.
login(found, password, reply) ==
    IF db = "down"
    THEN [users |-> users, sessions |-> sessions,
          res |-> Response("login", "handler", 500, InternalError)]
    ELSE IF found = 0
    THEN [users |-> users, sessions |-> sessions,
          res |-> Response("login", "handler", 404, InvalidCredentials)]
    ELSE loginAs(users[found], password, reply)

\* The users findFirst may return for the identifier: 0 stands for null.
Found(identifier) ==
    IF userFindFirst(identifier) = {} THEN {0} ELSE userFindFirst(identifier)

\* One login request: its body, the row findFirst returned for it
\* (found \in Found(identifier)) and the reply of the contact lookup.
LoginReq(identifier, password, found, reply) ==
    LET out == login(found, password, reply)
    IN  /\ users' = out.users
        /\ sessions' = out.sessions
        /\ res' = out.res
        /\ issued' = IF out.res.cookie.set
                     THEN issued \cup {out.res.cookie.value} ELSE issued
        /\ ops' = IF out.res.cookie.set THEN ops + 1 ELSE ops
        /\ UNCHANGED <<db, flight, bookingMessages, now>>

\* The contact lookup is made, and so has a reply, only once the password
\* is verified.
LoginReplies(password, found) ==
    IF found # 0 /\ bcryptCompare(password, users[found].password)
    THEN ContactReplies ELSE {NoReply}

Login ==
    /\ ops < MaxOps
    /\ \E identifier \in Identifiers, password \in Passwords :
         \E found \in Found(identifier) :
            \E reply \in LoginReplies(password, found) :
                LoginReq(identifier, password, found, reply)

----------------------------------------------------------------------------
(* POST /api/auth/logout *)

\* logout whose missing-cookie branch does not return.
logoutWithoutReturn(cookie) ==
    [sessions |-> IF Truthy(cookie) THEN sessionDeleteMany(cookie) ELSE sessions,
     res |-> [Response("logout", "handler", 200, "")
                EXCEPT !.cookie = [set |-> FALSE, cleared |-> TRUE,
                                   value |-> NoToken, maxAge |-> 0]]]

logout(cookie) ==
    IF Truthy(cookie) /\ db = "down"
    THEN [sessions |-> sessions,
          res |-> Response("logout", "handler", 500, InternalError)]
    ELSE IF Truthy(cookie)
    THEN [sessions |-> sessionDeleteMany(cookie),
          res |-> [Response("logout", "handler", 200, "")
                     EXCEPT !.cookie = [set |-> FALSE, cleared |-> TRUE,
                                        value |-> NoToken, maxAge |-> 0]]]
    ELSE [sessions |-> sessions,
          res |-> Response("logout", "handler", 400, "No active session found")]

LogoutReq(cookie) ==
    LET out == logout(cookie)
    IN  /\ sessions' = out.sessions
        /\ res' = out.res
        /\ UNCHANGED <<db, flight, users, bookingMessages, now, ops, issued>>

Logout == \E cookie \in CookieValues : LogoutReq(cookie)

----------------------------------------------------------------------------
(* GET /api/auth/check-session *)

Schemes == {"Bearer", "Basic"}

\* An Authorization header "<scheme> <token>", or none.
Headers ==
    {NoHeader} \cup {[scheme |-> sc, token |-> t] : sc \in Schemes, t \in issued}

\* extractToken that takes the token of any scheme.
extractTokenAnyScheme(header) ==
    IF header.scheme = "none" THEN NoToken ELSE header.token

\* extractToken(req): null without a header or with another scheme.
extractToken(header) ==
    IF header.scheme = "none" THEN NoToken
    ELSE IF header.scheme = "Bearer" THEN header.token ELSE NoToken

\* extractToken(req) || req.cookies[COOKIE_NAME]
presentedToken(header, cookie) ==
    IF Truthy(extractToken(header)) THEN extractToken(header) ELSE cookie

\* The whole User row, as include: { user: true } loads it.
WholeUser(user) == user

PublicProfile(user) ==
    [id |-> user.id, name |-> user.name, email |-> user.email, phone |-> user.phone]

\* check-session that trusts a verified token without looking up its row.
checkSessionWithoutLookup(header, cookie) ==
    LET token == presentedToken(header, cookie)
    IN  IF ~Truthy(token)
        THEN Response("check-session", "handler", 401, "Unauthorized")
        ELSE IF ~jwtVerify(token, now)
        THEN Response("check-session", "handler", 401, "Invalid token")
        ELSE [Response("check-session", "handler", 200, "")
                EXCEPT !.body = <<[sm8Uuid |-> token.sm8Uuid]>>]

checkSession(header, cookie) ==
    LET token == presentedToken(header, cookie)
    IN  IF ~Truthy(token)
        THEN Response("check-session", "handler", 401, "Unauthorized")
        ELSE IF ~jwtVerify(token, now)
        THEN Response("check-session", "handler", 401, "Invalid token")
        ELSE IF db = "down"
        THEN Response("check-session", "handler", 500, InternalError)
        ELSE IF sessionFind(token) = {}
        THEN Response("check-session", "handler", 401, "Session not found")
        ELSE LET session == CHOOSE s \in sessionFind(token) : TRUE
             IN  [Response("check-session", "handler", 200, "")
                    EXCEPT !.body = <<PublicProfile(users[session.userId])>>]

CheckSessionReq(header, cookie) ==
    /\ res' = checkSession(header, cookie)
    /\ UNCHANGED <<db, flight, users, sessions, bookingMessages, now, ops, issued>>

CheckSession ==
    \E header \in Headers, cookie \in CookieValues : CheckSessionReq(header, cookie)

----------------------------------------------------------------------------
(* authMiddleware, mounted on /api/bookings and /api/messages and again on *)
(* each of their routes                                                    *)

\* The token check-session would take: the bearer header before the cookie.
headerOrCookieToken(header, cookie) ==
    IF Truthy(extractToken(header)) THEN extractToken(header) ELSE cookie

\* const token = req.cookies?.[COOKIE_NAME]: the Authorization header of
\* the request is not read.
cookieToken(header, cookie) == cookie

\* The tokens authMiddleware reads from the requests a client can send.
RequestTokens ==
    {cookieToken(header, cookie) : header \in Headers, cookie \in CookieValues}

NoUser == [id |-> 0, name |-> Undefined, email |-> Undefined, phone |-> Undefined,
           password |-> Undefined, sm8Uuid |-> Null]

\* No request is on its way.
NoFlight == [pc |-> "idle", cookie |-> NoToken, user |-> NoUser]

\* authMiddleware that calls next() for a cookie of no session.
authMiddlewareWithoutSession(route, cookie) ==
    IF ~Truthy(cookie)
    THEN [next |-> FALSE, user |-> NoUser,
          res |-> Response(route, "authMiddleware", 401,
                           "Unauthorized: No token provided")]
    ELSE [next |-> TRUE,
          user |-> IF sessionFind(cookie) = {} THEN NoUser
                   ELSE users[(CHOOSE s \in sessionFind(cookie) : TRUE).userId],
          res |-> Response(route, "handler", 200, "")]

\* authMiddleware that verifies the token as check-session does before it
\* looks the session up.
authMiddlewareVerifying(route, cookie) ==
    IF ~Truthy(cookie)
    THEN [next |-> FALSE, user |-> NoUser,
          res |-> Response(route, "authMiddleware", 401,
                           "Unauthorized: No token provided")]
    ELSE IF ~jwtVerify(cookie, now) \/ sessionFind(cookie) = {}
    THEN [next |-> FALSE, user |-> NoUser,
          res |-> Response(route, "authMiddleware", 401,
                           "Unauthorized: Invalid session")]
    ELSE LET session == CHOOSE s \in sessionFind(cookie) : TRUE
         IN  [next |-> TRUE, user |-> users[session.userId],
              res |-> Response(route, "handler", 200, "")]

\* authMiddleware that turns away a user without a ServiceM8 UUID instead
\* of warning.
authMiddlewareRequiringSm8Uuid(route, cookie) ==
    IF ~Truthy(cookie)
    THEN [next |-> FALSE, user |-> NoUser,
          res |-> Response(route, "authMiddleware", 401,
                           "Unauthorized: No token provided")]
    ELSE IF sessionFind(cookie) = {}
    THEN [next |-> FALSE, user |-> NoUser,
          res |-> Response(route, "authMiddleware", 401,
                           "Unauthorized: Invalid session")]
    ELSE LET session == CHOOSE s \in sessionFind(cookie) : TRUE
         IN  IF users[session.userId].sm8Uuid = Null
             THEN [next |-> FALSE, user |-> NoUser,
                   res |-> Response(route, "authMiddleware", 401,
                                    "Unauthorized: Invalid session")]
             ELSE [next |-> TRUE, user |-> users[session.userId],
                   res |-> Response(route, "handler", 200, "")]

\* authMiddleware without its catch: a rejected findUnique leaves the
\* request without a response.
authMiddlewareWithoutCatch(route, cookie) ==
    IF ~Truthy(cookie)
    THEN [next |-> FALSE, user |-> NoUser,
          res |-> Response(route, "authMiddleware", 401,
                           "Unauthorized: No token provided")]
    ELSE IF db = "down"
    THEN [next |-> FALSE, user |-> NoUser,
          res |-> Response(route, "none", 0, "")]
    ELSE IF sessionFind(cookie) = {}
    THEN [next |-> FALSE, user |-> NoUser,
          res |-> Response(route, "authMiddleware", 401,
                           "Unauthorized: Invalid session")]
    ELSE LET session == CHOOSE s \in sessionFind(cookie) : TRUE
         IN  [next |-> TRUE, user |-> users[session.userId],
              res |-> Response(route, "handler", 200, "")]

\* authMiddleware that lets a cookie through on its signature and expiry
\* alone.
authMiddlewareTrustingJwt(route, cookie) ==
    IF ~Truthy(cookie)
    THEN [next |-> FALSE, user |-> NoUser,
          res |-> Response(route, "authMiddleware", 401,
                           "Unauthorized: No token provided")]
    ELSE IF ~jwtVerify(cookie, now)
    THEN [next |-> FALSE, user |-> NoUser,
          res |-> Response(route, "authMiddleware", 401,
                           "Unauthorized: Invalid session")]
    ELSE [next |-> TRUE,
          user |-> IF sessionFind(cookie) = {} THEN NoUser
                   ELSE users[(CHOOSE s \in sessionFind(cookie) : TRUE).userId],
          res |-> Response(route, "handler", 200, "")]

\* One run of the middleware on the cookie: either it answers 401 itself,
\* or 500 when the session lookup rejects (next = FALSE), or it attaches
\* the session's user and calls next().
authMiddleware(route, cookie) ==
    IF ~Truthy(cookie)
    THEN [next |-> FALSE, user |-> NoUser,
          res |-> Response(route, "authMiddleware", 401,
                           "Unauthorized: No token provided")]
    ELSE IF db = "down"
    THEN [next |-> FALSE, user |-> NoUser,
          res |-> Response(route, "authMiddleware", 500, InternalError)]
    ELSE IF sessionFind(cookie) = {}
    THEN [next |-> FALSE, user |-> NoUser,
          res |-> Response(route, "authMiddleware", 401,
                           "Unauthorized: Invalid session")]
    ELSE LET session == CHOOSE s \in sessionFind(cookie) : TRUE
         IN  [next |-> TRUE, user |-> users[session.userId],
              res |-> Response(route, "handler", 200, "")]

\* app.use(path, authMiddleware, router) and then the route's own
\* authMiddleware: the handler runs after both called next().
protected(route, cookie) ==
    LET mounted == authMiddleware(route, cookie)
    IN  IF ~mounted.next THEN mounted ELSE authMiddleware(route, cookie)

----------------------------------------------------------------------------
(* POST /api/messages/:uuid/send-message *)

MessageBodies == {Undefined, "", "hello"}

Job(description, status) == [job_description |-> description, status |-> status]

\* The body ServiceM8 sends with an error status has neither field.
NoJob == Job(Undefined, Undefined)

JobReplies ==
    {NetReject, HttpError(404, NoJob),
     Json(Job("Brake check", "Quote")), Json(Job("Roadworthy", "Work Order"))}

\* fetchJobDetails(uuid): fetch and response.json(); the status is not
\* looked at.
fetchJobDetailsThrows(reply) == reply.net = "reject" \/ ~reply.parse

fetchJobDetails(reply) == reply.data

\* prisma.bookingMessage.create rejects a row without its required columns.
messageCreateThrows(row) ==
    \/ row.bookingDescription = Undefined
    \/ row.bookingStatus = Undefined

\* A write that replaces the row the booking already has, if any.
messageUpsert(row) ==
    IF \E i \in 1..Len(bookingMessages) : bookingMessages[i].bookingUuid = row.bookingUuid
    THEN LET i == CHOOSE j \in 1..Len(bookingMessages) :
                      bookingMessages[j].bookingUuid = row.bookingUuid
         IN  [bookingMessages EXCEPT ![i] = row]
    ELSE Append(bookingMessages, row)

\* prisma.bookingMessage.create({ data }): one more row, the others as
\* they are.
messageCreate(row) == Append(bookingMessages, row)

\* The row with the snapshot columns crossed.
BookingMessageCrossed(uuid, jobDetails, userId, message) ==
    [id |-> Len(bookingMessages) + 1,
     bookingUuid |-> uuid,
     bookingDescription |-> jobDetails.status,
     bookingStatus |-> jobDetails.job_description,
     userId |-> userId,
     message |-> message,
     createdAt |-> now]

BookingMessage(uuid, jobDetails, userId, message) ==
    [id |-> Len(bookingMessages) + 1,
     bookingUuid |-> uuid,
     bookingDescription |-> jobDetails.job_description,
     bookingStatus |-> jobDetails.status,
     userId |-> userId,
     message |-> message,
     createdAt |-> now]

\* message === undefined
messageUndefined(message) == message = Undefined

\* !message
messageMissing(message) == message = Undefined \/ message = ""

sendMessageHandler(user, uuid, message, reply) ==
    LET fail(status, error, calls) ==
            [bookingMessages |-> bookingMessages,
             res |-> [Response("send-message", "handler", status, error)
                        EXCEPT !.extCalls = calls]]
    IN  IF user.id = 0 THEN fail(401, "Unauthorized", 0)
        ELSE IF messageMissing(message) THEN fail(400, "Message is required", 0)
        ELSE IF fetchJobDetailsThrows(reply) THEN fail(500, InternalError, 1)
        ELSE IF db = "down" THEN fail(500, InternalError, 1)
        ELSE LET saved == BookingMessage(uuid, fetchJobDetails(reply), user.id, message)
             IN  IF messageCreateThrows(saved) THEN fail(500, InternalError, 1)
                 ELSE [bookingMessages |-> messageCreate(saved),
                       res |-> [Response("send-message", "handler", 200, "")
                                  EXCEPT !.extCalls = 1, !.body = <<saved>>]]

sendMessage(cookie, uuid, message, reply) ==
    LET auth == protected("send-message", cookie)
    IN  IF ~auth.next
        THEN [bookingMessages |-> bookingMessages, res |-> auth.res]
        ELSE sendMessageHandler(auth.user, uuid, message, reply)

SendMessageReq(cookie, uuid, message, reply) ==
    LET out == sendMessage(cookie, uuid, message, reply)
    IN  /\ bookingMessages' = out.bookingMessages
        /\ res' = out.res
        /\ ops' = IF out.res.status = 200 THEN ops + 1 ELSE ops
        /\ UNCHANGED <<db, flight, users, sessions, now, issued>>

\* The booking is fetched, and so has a reply, only for an authenticated
\* request with a message.
SendReplies(cookie, message) ==
    IF protected("send-message", cookie).next /\ ~messageMissing(message)
    THEN JobReplies ELSE {NoReply}

SendMessage ==
    /\ ops < MaxOps
    /\ \E cookie \in RequestTokens, uuid \in BookingUuids, message \in MessageBodies :
         \E reply \in SendReplies(cookie, message) :
            SendMessageReq(cookie, uuid, message, reply)

----------------------------------------------------------------------------
(* GET /api/messages/:uuid/get-messages and GET /api/messages/ *)

\* findMany({ where, orderBy: { createdAt } }): the orders the database may
\* return the rows `rows` (indices into bookingMessages) in; rows created
\* at the same instant come in either order.
Orderings(rows, descending) ==
    {q \in [1..Cardinality(rows) -> rows] :
        /\ \A a, b \in 1..Cardinality(rows) : a # b => q[a] # q[b]
        /\ \A a, b \in 1..Cardinality(rows) :
              a < b => IF descending
                       THEN bookingMessages[q[a]].createdAt >= bookingMessages[q[b]].createdAt
                       ELSE bookingMessages[q[a]].createdAt <= bookingMessages[q[b]].createdAt}

\* include: { user: { select: { id, name, email } } }
WithAuthor(row) ==
    [id |-> row.id, bookingUuid |-> row.bookingUuid,
     bookingDescription |-> row.bookingDescription,
     bookingStatus |-> row.bookingStatus, userId |-> row.userId,
     message |-> row.message, createdAt |-> row.createdAt,
     user |-> [id |-> users[row.userId].id, name |-> users[row.userId].name,
               email |-> users[row.userId].email]]

\* findMany without the where clause.
messagesOfAnyBooking(uuid) == 1..Len(bookingMessages)

messagesOfBooking(uuid) ==
    {i \in 1..Len(bookingMessages) : bookingMessages[i].bookingUuid = uuid}

\* The responses the handler can give: one per order the rows can come
\* in, or the 500 of its catch when findMany rejects.
getMessagesHandler(uuid) ==
    IF db = "down"
    THEN {Response("get-messages", "handler", 500, InternalError)}
    ELSE {[Response("get-messages", "handler", 200, "")
             EXCEPT !.body = [k \in 1..Len(q) |-> WithAuthor(bookingMessages[q[k]])]] :
          q \in Orderings(messagesOfBooking(uuid), FALSE)}

getMessages(cookie, uuid) ==
    LET auth == protected("get-messages", cookie)
    IN  IF ~auth.next THEN {auth.res} ELSE getMessagesHandler(uuid)

GetMessagesReq(cookie, uuid) ==
    /\ res' \in getMessages(cookie, uuid)
    /\ UNCHANGED <<db, flight, users, sessions, bookingMessages, now, ops, issued>>

GetMessages ==
    \E cookie \in RequestTokens, uuid \in BookingUuids : GetMessagesReq(cookie, uuid)

messagesOfUser(userId) ==
    {i \in 1..Len(bookingMessages) : bookingMessages[i].userId = userId}

GroupEntry(row) ==
    [bookingUuid |-> row.bookingUuid, bookingDescription |-> row.bookingDescription]

\* One entry per message, with no look at the bookings already entered.
groupedEvery(q, k) == [j \in 1..k |-> GroupEntry(bookingMessages[q[j]])]

\* messages.forEach: the first message seen of a booking makes its entry.
RECURSIVE grouped(_, _)
grouped(q, k) ==
    IF k = 0 THEN <<>>
    ELSE LET before == grouped(q, k - 1)
             row == bookingMessages[q[k]]
         IN  IF \E j \in 1..Len(before) : before[j].bookingUuid = row.bookingUuid
             THEN before
             ELSE Append(before, GroupEntry(row))

\* The listing over the user's messages read oldest first.
listMessagesOldestFirst(cookie) ==
    LET auth == protected("list-messages", cookie)
    IN  IF ~auth.next THEN {auth.res}
        ELSE {[Response("list-messages", "handler", 200, "")
                 EXCEPT !.body = grouped(q, Len(q))] :
              q \in Orderings(messagesOfUser(auth.user.id), FALSE)}

listMessagesHandler(user) ==
    IF db = "down"
    THEN {Response("list-messages", "handler", 500, InternalError)}
    ELSE {[Response("list-messages", "handler", 200, "")
             EXCEPT !.body = grouped(q, Len(q))] :
          q \in Orderings(messagesOfUser(user.id), TRUE)}

listMessages(cookie) ==
    LET auth == protected("list-messages", cookie)
    IN  IF ~auth.next THEN {auth.res} ELSE listMessagesHandler(auth.user)

ListMessagesReq(cookie) ==
    /\ res' \in listMessages(cookie)
    /\ UNCHANGED <<db, flight, users, sessions, bookingMessages, now, ops, issued>>

ListMessages == \E cookie \in RequestTokens : ListMessagesReq(cookie)

----------------------------------------------------------------------------
(* GET /api/bookings/view-attachment/:uuid and GET /api/bookings/ *)

File(contentType) ==
    [Reply("response", TRUE, 200, FALSE, "bytes") EXCEPT !.contentType = contentType]

FileReplies ==
    {NetReject, HttpError(404, "not found"), File("image/png"), File(""), File(Null)}

\* response.headers.get("content-type") || "application/octet-stream"
contentTypeOf(reply) ==
    IF reply.contentType = Null \/ reply.contentType = ""
    THEN "application/octet-stream"
    ELSE reply.contentType

\* The handler answering an upstream error like the other routes do, with
\* a 500 of its own.
viewAttachmentHidingUpstream(reply) ==
    IF reply.net = "reject" \/ ~reply.ok
    THEN [Response("view-attachment", "handler", 500, "Failed to fetch attachment")
            EXCEPT !.extCalls = 1]
    ELSE [Response("view-attachment", "handler", 200, "")
            EXCEPT !.extCalls = 1,
                   !.body = [contentType |-> contentTypeOf(reply),
                             bytes |-> reply.data]]

viewAttachmentHandler(reply) ==
    IF reply.net = "reject"
    THEN [Response("view-attachment", "handler", 500, "Failed to fetch attachment")
            EXCEPT !.extCalls = 1]
    ELSE IF ~reply.ok
    THEN [Response("view-attachment", "handler", reply.status, "")
            EXCEPT !.extCalls = 1, !.body = reply.data]
    ELSE [Response("view-attachment", "handler", 200, "")
            EXCEPT !.extCalls = 1,
                   !.body = [contentType |-> contentTypeOf(reply),
                             bytes |-> reply.data]]

viewAttachment(cookie, reply) ==
    LET auth == protected("view-attachment", cookie)
    IN  IF ~auth.next THEN auth.res ELSE viewAttachmentHandler(reply)

ViewAttachmentReq(cookie, reply) ==
    /\ res' = viewAttachment(cookie, reply)
    /\ UNCHANGED <<db, flight, users, sessions, bookingMessages, now, ops, issued>>

ViewAttachment ==
    \E cookie \in RequestTokens :
        \E reply \in IF protected("view-attachment", cookie).next
                      THEN FileReplies ELSE {NoReply} :
            ViewAttachmentReq(cookie, reply)

JobLists ==
    {<<>>, <<[uuid |-> "job-1"]>>, <<[uuid |-> "job-1"], [uuid |-> "job-2"]>>}

JobListReplies ==
    {NetReject, HttpError(401, "denied"), BadJson} \cup {Json(jobs) : jobs \in JobLists}

\* What attachment.json?$filter=related_object_uuid eq ... can answer.
AttachmentReplies ==
    {NetReject, HttpError(500, [message |-> "busy"]), Json(<<>>), Json(<<[uuid |-> "att-1"]>>)}

\* fetchBookingAttachments(jobUuid): [] when the answer is not OK.
fetchBookingAttachmentsThrows(reply) == reply.net = "reject" \/ (reply.ok /\ ~reply.parse)

\* The body of the answer, whatever its status.
fetchBookingAttachmentsAnyStatus(reply) == reply.data

fetchBookingAttachments(reply) == IF ~reply.ok THEN <<>> ELSE reply.data

\* `attachments` holds the reply to the attachment fetch of each job, in
\* the order of the jobs.
getJobsHandler(user, reply, attachments) ==
    LET fail(status, error, calls) ==
            [Response("get-jobs", "handler", status, error) EXCEPT !.extCalls = calls]
    IN  IF user.id = 0 THEN fail(401, "Unauthorized", 0)
        ELSE IF user.sm8Uuid = Null
            THEN fail(400, "ServiceM8 UUID not found for user", 0)
        ELSE IF reply.net = "reject" THEN fail(500, InternalError, 1)
        ELSE IF ~reply.ok THEN fail(500, "Failed to fetch jobs from ServiceM8", 1)
        ELSE IF ~reply.parse THEN fail(500, InternalError, 1)
        ELSE LET jobs == reply.data
                 calls == 1 + Len(jobs)
             IN  IF \E k \in 1..Len(jobs) : fetchBookingAttachmentsThrows(attachments[k])
                 THEN fail(500, InternalError, calls)
                 ELSE [Response("get-jobs", "handler", 200, "")
                         EXCEPT !.extCalls = calls,
                                !.body = [k \in 1..Len(jobs) |->
                                            [uuid |-> jobs[k].uuid,
                                             attachments |->
                                                fetchBookingAttachments(attachments[k])]]]

getJobs(cookie, reply, attachments) ==
    LET auth == protected("get-jobs", cookie)
    IN  IF ~auth.next THEN auth.res ELSE getJobsHandler(auth.user, reply, attachments)

GetJobsReq(cookie, reply, attachments) ==
    /\ res' = getJobs(cookie, reply, attachments)
    /\ UNCHANGED <<db, flight, users, sessions, bookingMessages, now, ops, issued>>

\* The number of attachment fetches the reply to the job query leads to.
JobCount(reply) == IF reply.ok /\ reply.parse THEN Len(reply.data) ELSE 0

\* The jobs are fetched only for an authenticated user with a company.
GetJobsReplies(cookie) ==
    IF protected("get-jobs", cookie).next /\ protected("get-jobs", cookie).user.sm8Uuid # Null
    THEN JobListReplies ELSE {NoReply}

GetJobs ==
    \E cookie \in RequestTokens :
        \E reply \in GetJobsReplies(cookie) :
            \E attachments \in [1..JobCount(reply) -> AttachmentReplies] :
                GetJobsReq(cookie, reply, attachments)

----------------------------------------------------------------------------
(* The clock *)

Tick ==
    /\ ops < MaxOps
    /\ \E d \in TickSteps : now' = now + d
    /\ ops' = ops + 1
    /\ UNCHANGED <<db, flight, users, sessions, bookingMessages, issued, res>>

----------------------------------------------------------------------------

Init ==
    /\ users = InitUsers
    /\ sessions = {}
    /\ bookingMessages = <<>>
    /\ now = 0
    /\ ops = 0
    /\ issued = {}
    /\ res = Response("none", "none", 0, "")
    /\ db = "up"
    /\ flight = NoFlight

\* The session lifecycle: the routes of /api/auth.
Next ==
    \/ Login
    \/ Logout
    \/ CheckSession
    \/ Tick

Spec == Init /\ [][Next]_vars

\* The company each user's email is a contact of, while ServiceM8's
\* directory stays as it is.
Directory == (1 :> "co-1") @@ (2 :> "co-2")

\* A login that succeeds: the user's own email and password, and the
\* contact record of the directory.
SignIn ==
    /\ ops < MaxOps
    /\ \E u \in UserIds :
         \E password \in {p \in Passwords : bcryptCompare(p, users[u].password)} :
            LoginReq(users[u].email, password, u, Json(<<Contact(Directory[u])>>))

\* A protected route that writes, behind sessions that successful logins
\* open and logouts close.
NextApi ==
    \/ SignIn
    \/ Logout
    \/ SendMessage
    \/ Tick

SpecApi == Init /\ [][NextApi]_vars

\* The message routes: sending and the two listings.
NextMessages ==
    \/ SignIn
    \/ SendMessage
    \/ GetMessages
    \/ ListMessages
    \/ Tick

SpecMessages == Init /\ [][NextMessages]_vars

\* The booking routes, which read the external API only.
NextBookings ==
    \/ SignIn
    \/ Logout
    \/ ViewAttachment
    \/ GetJobs
    \/ Tick

SpecBookings == Init /\ [][NextBookings]_vars

\* A database carried over from before the migration that added the
\* nullable sm8Uuid column to the User table: Bob holds a session and has
\* never been linked to a ServiceM8 company.
CarriedToken == jwtSign(Null, 0)

InitCarried ==
    /\ users = InitUsers
    /\ sessions = {[userId |-> 2, token |-> CarriedToken,
                    expiresAt |-> SessionLifetime]}
    /\ bookingMessages = <<>>
    /\ now = 0
    /\ ops = 0
    /\ issued = {CarriedToken}
    /\ res = Response("none", "none", 0, "")
    /\ db = "up"
    /\ flight = NoFlight

\* The protected routes on the carried-over database.
NextCarried ==
    \/ SendMessage
    \/ ListMessages
    \/ GetJobs
    \/ Tick

SpecCarried == InitCarried /\ [][NextCarried]_vars

----------------------------------------------------------------------------
(* The database failing *)

\* From here on every prisma call rejects.
StoreFails ==
    /\ db = "up"
    /\ db' = "down"
    /\ UNCHANGED <<users, sessions, bookingMessages, now, ops, issued, res, flight>>

StoreRecovers ==
    /\ db = "down"
    /\ db' = "up"
    /\ UNCHANGED <<users, sessions, bookingMessages, now, ops, issued, res, flight>>

\* Every route that calls the store, over a database that comes and goes.
NextFaults ==
    \/ SignIn
    \/ Logout
    \/ CheckSession
    \/ SendMessage
    \/ GetMessages
    \/ ListMessages
    \/ StoreFails
    \/ StoreRecovers

SpecFaults == Init /\ [][NextFaults]_vars

----------------------------------------------------------------------------
(* GET /api/messages/ step by step: the router's authMiddleware, the       *)
(* route's authMiddleware and the handler are separate awaits, and other   *)
(* requests run between them                                               *)

\* The request arrives with its cookie.
Arrive ==
    /\ flight.pc \in {"idle", "done"}
    /\ \E cookie \in RequestTokens :
          flight' = [pc |-> "mounted", cookie |-> cookie, user |-> NoUser]
    /\ UNCHANGED <<users, sessions, bookingMessages, now, ops, issued, res, db>>

\* One run of authMiddleware: the one app.use mounted, then the route's.
Lookup ==
    /\ flight.pc \in {"mounted", "route"}
    /\ LET auth == authMiddleware("list-messages", flight.cookie)
       IN  IF auth.next
           THEN /\ flight' = [pc |-> IF flight.pc = "mounted" THEN "route" ELSE "handler",
                              cookie |-> flight.cookie, user |-> auth.user]
                /\ res' = res
           ELSE /\ flight' = NoFlight
                /\ res' = auth.res
    /\ UNCHANGED <<users, sessions, bookingMessages, now, ops, issued, db>>

\* The handler runs with the user the middleware attached.
Handle ==
    /\ flight.pc = "handler"
    /\ res' \in listMessagesHandler(flight.user)
    /\ flight' = [flight EXCEPT !.pc = "done"]
    /\ UNCHANGED <<users, sessions, bookingMessages, now, ops, issued, db>>

NextRace ==
    \/ SignIn
    \/ Logout
    \/ SendMessage
    \/ Arrive
    \/ Lookup
    \/ Handle

SpecRace == Init /\ [][NextRace]_vars

----------------------------------------------------------------------------
(* Properties of the session lifecycle, checked under Spec                 *)

\* The login requests whose credentials are right: the identifier is the
\* email or phone of `found` and the password is that user's.
RightCredentials(identifier, password, found) ==
    /\ found \in userFindFirst(identifier)
    /\ bcryptCompare(password, users[found].password)

\* C1: a login with an identifier matching a user's email or phone, the
\* right password and a contact lookup that returns a record with a company
\* UUID is answered 200, sets the cookie to the newly signed token, and has
\* persisted a Session row with that token and that user's id.
C1_LoginIssuesSession ==
    [][\A identifier \in Identifiers, password \in Passwords,
          found \in UserIds, c \in Sm8Uuids :
            (/\ RightCredentials(identifier, password, found)
             /\ LoginReq(identifier, password, found, Json(<<Contact(c)>>)))
            => /\ res'.status = 200
               /\ res'.cookie.set
               /\ res'.cookie.value = jwtSign(c, now)
               /\ \E s \in sessions' :
                     s.token = res'.cookie.value /\ s.userId = found]_vars

\* The contact lookup answered OK and holds no contact of a company: an
\* empty list, or a record without a company UUID.
NoContactReplies == {Json(<<>>), Json(<<Contact(Null)>>)}

\* C2: a login with right credentials, when the external API answers OK
\* but has no contact record for the user (also when the list is empty), is
\* answered 404 and creates no session.
C2_NoContactIs404 ==
    [][\A identifier \in Identifiers, password \in Passwords,
          found \in UserIds, reply \in NoContactReplies :
            (/\ RightCredentials(identifier, password, found)
             /\ LoginReq(identifier, password, found, reply))
            => /\ res'.status = 404
               /\ sessions' = sessions]_vars

\* C3: a login with a known identifier and a wrong password gets the very
\* response of a login with an identifier no user has (404 and the same
\* error body); neither makes an external call or changes the store.
C3_WrongPasswordLikeUnknownUser ==
    LET unknownUser == {login(0, password, reply) :
                            password \in Passwords, reply \in ContactReplies}
    IN  \A found \in UserIds, password \in Passwords \ {Undefined},
           reply \in ContactReplies :
            (/\ \E identifier \in Identifiers : found \in userFindFirst(identifier)
             /\ ~bcryptCompare(password, users[found].password))
            => LET wrong == login(found, password, reply)
               IN  /\ wrong.res.status = 404
                   /\ wrong.res.extCalls = 0
                   /\ wrong.sessions = sessions
                   /\ wrong.users = users
                   /\ \A unknown \in unknownUser :
                         /\ unknown.res = wrong.res
                         /\ unknown.sessions = sessions
                         /\ unknown.users = users

C3_Witness ==
    /\ res.route = "login"
    /\ res.status = 404
    /\ res.error = InvalidCredentials
    /\ sessions # {}
    /\ \E identifier \in Identifiers, password \in Passwords \ {Undefined},
          found \in UserIds :
            /\ found \in userFindFirst(identifier)
            /\ ~bcryptCompare(password, users[found].password)
            /\ login(found, password, NoReply).res = res

\* C4: a logout that carries a session cookie deletes every Session row
\* whose token is the cookie value and no other, clears the cookie and is
\* answered 200; afterwards no Session row has that token.
C4_LogoutDeletesSession ==
    \A cookie \in CookieValues :
        Truthy(cookie)
        => LET out == logout(cookie)
           IN  /\ out.res.status = 200
               /\ out.res.cookie.cleared
               /\ \A s \in out.sessions : s.token # cookie
               /\ out.sessions = {s \in sessions : s.token # cookie}

C4_Witness ==
    /\ res.route = "logout"
    /\ res.status = 200
    /\ res.cookie.cleared
    /\ \E t \in issued : sessionFind(t) = {}
    /\ sessions # {}

\* C5: a logout without a session cookie is answered 400, deletes no
\* Session row and clears no cookie.
C5_LogoutWithoutCookie ==
    LET out == logout(NoToken)
    IN  /\ out.res.status = 400
        /\ out.sessions = sessions
        /\ ~out.res.cookie.cleared
        /\ ~out.res.cookie.set

C5_Witness ==
    /\ res.route = "logout"
    /\ res.status = 400
    /\ ~res.cookie.cleared
    /\ sessions # {}

\* The tokens that were logged out: issued, and their Session row deleted.
Revoked == {t \in issued : sessionFind(t) = {}}

C8_CheckSessionStatus ==
    \A header \in Headers, cookie \in CookieValues :
        LET token == presentedToken(header, cookie)
            out == checkSession(header, cookie)
        IN  /\ out.status \in {200, 401}
            /\ ~Truthy(token) => out.status = 401
            /\ token.sig # "JWT_SECRET" => out.status = 401
            /\ now >= token.exp => out.status = 401
            /\ out.status = 200
                 => /\ jwtVerify(token, now)
                    /\ \E s \in sessions : s.token = token

C8_Witness ==
    /\ res.route = "check-session"
    /\ res.status = 401
    /\ res.error = "Invalid token"
    /\ \E s \in sessions : now >= s.token.exp

----------------------------------------------------------------------------
(* Properties of the protected routes, checked under SpecApi               *)

\* The cookie is the token of an existing Session row.
Authenticated(cookie) == Truthy(cookie) /\ sessionFind(cookie) # {}

\* The request was answered 401 by authMiddleware and nothing else ran.
Rejected(response) ==
    /\ response.status = 401
    /\ response.by = "authMiddleware"
    /\ response.extCalls = 0

\* C6: a request to a route under /api/bookings or /api/messages without a
\* cookie, or with a cookie that is no Session row's token, is answered 401
\* by authMiddleware; the handler does not run: no message is persisted and
\* no external call is made.
C6_ProtectedRoutesNeedSession ==
    \A cookie \in CookieValues :
        ~Authenticated(cookie)
        => /\ \A uuid \in BookingUuids, message \in MessageBodies, reply \in JobReplies :
                LET out == sendMessage(cookie, uuid, message, reply)
                IN  Rejected(out.res) /\ out.bookingMessages = bookingMessages
           /\ \A uuid \in BookingUuids :
                \A response \in getMessages(cookie, uuid) : Rejected(response)
           /\ \A response \in listMessages(cookie) : Rejected(response)
           /\ \A reply \in FileReplies : Rejected(viewAttachment(cookie, reply))
           /\ \A reply \in JobListReplies :
                \A attachments \in [1..JobCount(reply) -> AttachmentReplies] :
                    Rejected(getJobs(cookie, reply, attachments))

C6_Witness ==
    /\ res.route = "send-message"
    /\ Rejected(res)
    /\ res.error = "Unauthorized: Invalid session"
    /\ Revoked # {}
    /\ sessions # {}

\* C9: send-message by an authenticated user with a missing or empty
\* message is answered 400, fetches no booking and persists no row.
C9_EmptyMessageIs400 ==
    \A cookie \in CookieValues, uuid \in BookingUuids, reply \in JobReplies :
        Authenticated(cookie)
        => \A message \in {Undefined, ""} :
            LET out == sendMessage(cookie, uuid, message, reply)
            IN  /\ out.res.status = 400
                /\ out.res.by = "handler"
                /\ out.res.extCalls = 0
                /\ out.bookingMessages = bookingMessages

C9_Witness ==
    /\ res.route = "send-message"
    /\ res.status = 400
    /\ res.by = "handler"
    /\ Len(bookingMessages) > 0

\* The external API returned the booking: a body with its description and
\* status.
ReturnsJob(reply) ==
    /\ reply.net = "response"
    /\ reply.parse
    /\ reply.data.job_description # Undefined
    /\ reply.data.status # Undefined

\* C10: send-message by an authenticated user with a non-empty message
\* persists exactly one new BookingMessage: its bookingUuid is the path
\* uuid, its userId the session's user, its message the body text, its
\* bookingDescription and bookingStatus the description and status the
\* external API returned in this request; the response is that row.
C10_SendPersistsSnapshot ==
    \A cookie \in CookieValues, uuid \in BookingUuids,
       message \in MessageBodies, reply \in JobReplies :
        (Authenticated(cookie) /\ message \notin {Undefined, ""} /\ ReturnsJob(reply))
        => LET out == sendMessage(cookie, uuid, message, reply)
               n == Len(bookingMessages)
               row == out.bookingMessages[n + 1]
           IN  /\ Len(out.bookingMessages) = n + 1
               /\ SubSeq(out.bookingMessages, 1, n) = bookingMessages
               /\ row.bookingUuid = uuid
               /\ \E s \in sessions : s.token = cookie /\ s.userId = row.userId
               /\ row.message = message
               /\ row.bookingDescription = reply.data.job_description
               /\ row.bookingStatus = reply.data.status
               /\ out.res.status = 200
               /\ out.res.body = <<row>>

C10_Witness ==
    /\ res.route = "send-message"
    /\ res.status = 200
    /\ Len(bookingMessages) = 2
    /\ res.body = <<bookingMessages[2]>>
    /\ bookingMessages[1].bookingUuid = bookingMessages[2].bookingUuid
    /\ bookingMessages[1].bookingDescription # bookingMessages[2].bookingDescription

----------------------------------------------------------------------------
(* Properties of the two listings, checked under SpecMessages              *)

\* C11: get-messages by an authenticated user returns every BookingMessage
\* whose bookingUuid is the path uuid, each once and no other row, in
\* non-decreasing order of createdAt, whoever sent them.
C11_GetMessagesOfBookingAscending ==
    \A cookie \in CookieValues, uuid \in BookingUuids :
        Authenticated(cookie)
        => \A response \in getMessages(cookie, uuid) :
            LET body == response.body
                ofBooking == {i \in 1..Len(bookingMessages) :
                                bookingMessages[i].bookingUuid = uuid}
            IN  /\ response.status = 200
                /\ Len(body) = Cardinality(ofBooking)
                /\ {body[k].id : k \in 1..Len(body)}
                     = {bookingMessages[i].id : i \in ofBooking}
                /\ \A k \in 1..Len(body) :
                      LET row == bookingMessages[body[k].id]
                      IN  /\ body[k].bookingUuid = uuid
                          /\ body[k].message = row.message
                          /\ body[k].userId = row.userId
                          /\ body[k].createdAt = row.createdAt
                /\ \A a, b \in 1..Len(body) :
                      a < b => body[a].createdAt <= body[b].createdAt

C11_Witness ==
    /\ res.route = "get-messages"
    /\ res.status = 200
    /\ Len(res.body) = 2
    /\ Len(bookingMessages) = 3
    /\ \E i \in 1..3 : bookingMessages[i].bookingUuid # res.body[1].bookingUuid

\* C12: the grouped listing by an authenticated user has exactly one entry
\* for each bookingUuid among that user's BookingMessages, however many
\* messages the user sent on it, and none for a booking only others wrote on.
C12_OneEntryPerBookingOfUser ==
    \A cookie \in CookieValues :
        Authenticated(cookie)
        => \A s \in sessionFind(cookie) :
            \A response \in listMessages(cookie) :
                LET body == response.body
                    mine == {bookingMessages[i].bookingUuid :
                                i \in {j \in 1..Len(bookingMessages) :
                                         bookingMessages[j].userId = s.userId}}
                IN  /\ response.status = 200
                    /\ Len(body) = Cardinality(mine)
                    /\ {body[k].bookingUuid : k \in 1..Len(body)} = mine

C12_Witness ==
    /\ res.route = "list-messages"
    /\ res.status = 200
    /\ Len(res.body) = 2
    /\ Len(bookingMessages) = 3
    /\ \A i \in 1..3 : bookingMessages[i].userId = bookingMessages[1].userId

\* C19: no request changes or removes a persisted BookingMessage: every
\* step keeps each existing row, with its bookingUuid, bookingDescription,
\* bookingStatus, message and userId, at its place, whatever the external
\* API says about the booking by then.
C19_BookingMessagesAppendOnly ==
    [][/\ Len(bookingMessages') >= Len(bookingMessages)
       /\ \A i \in 1..Len(bookingMessages) : bookingMessages'[i] = bookingMessages[i]]_vars

C19_Witness ==
    /\ res.route = "list-messages"
    /\ res.status = 200
    /\ Len(bookingMessages) >= 2
    /\ bookingMessages[1].bookingUuid = bookingMessages[2].bookingUuid
    /\ bookingMessages[1].bookingStatus # bookingMessages[2].bookingStatus

----------------------------------------------------------------------------
(* Further properties of the session lifecycle, checked under Spec         *)

\* C13 as stated: the Session row a successful login persists expires 7
\* days after the login, like the cookie, while the token expires after 1
\* hour.
C13_SessionRowSevenDays ==
    \A found \in UserIds, password \in Passwords, reply \in ContactReplies :
        LET out == login(found, password, reply)
        IN  out.res.status = 200
            => /\ out.sessions # sessions
               /\ \A s \in out.sessions \ sessions : s.expiresAt = now + CookieMaxAge
               /\ out.res.cookie.maxAge = CookieMaxAge
               /\ out.res.cookie.value.exp = now + JwtExpiresIn

\* C13, amended: the Session row a successful login persists expires 1
\* hour after the login, at the instant the token's embedded expiry names;
\* only the cookie lives 7 days.
C13_SessionRowOneHour ==
    \A found \in UserIds, password \in Passwords, reply \in ContactReplies :
        LET out == login(found, password, reply)
        IN  out.res.status = 200
            => /\ out.sessions # sessions
               /\ \A s \in out.sessions \ sessions :
                     /\ s.expiresAt = now + SessionLifetime
                     /\ s.expiresAt = s.token.exp
                     /\ s.token = out.res.cookie.value
               /\ out.res.cookie.maxAge = CookieMaxAge
               /\ out.res.cookie.value.exp = now + JwtExpiresIn
               /\ SessionLifetime < CookieMaxAge

C13_Witness ==
    /\ res.route = "login"
    /\ res.status = 200
    /\ res.cookie.maxAge = CookieMaxAge
    /\ \E s \in sessions :
          /\ s.token = res.cookie.value
          /\ s.expiresAt = now + SessionLifetime
          /\ s.expiresAt < now + res.cookie.maxAge

\* C14: a login by a user who is already linked to the company the lookup
\* returns, with the right credentials, is answered 200 and leaves the user
\* one more Session row, at any time, the second of an earlier login
\* included.
C14_ConcurrentSessionsPermitted ==
    [][\A identifier \in Identifiers, password \in Passwords,
          found \in UserIds, c \in Sm8Uuids :
            (/\ RightCredentials(identifier, password, found)
             /\ users[found].sm8Uuid = c
             /\ LoginReq(identifier, password, found, Json(<<Contact(c)>>)))
            => /\ res'.status = 200
               /\ Cardinality({s \in sessions' : s.userId = found})
                    = Cardinality({s \in sessions : s.userId = found}) + 1]_vars

\* C17: a check-session answered 200 carries the id, name, email and phone
\* of the user of the presented token's session and no other field of the
\* row, and sets no cookie.
C17_CheckSessionPublicProfile ==
    \A header \in Headers, cookie \in CookieValues :
        LET response == checkSession(header, cookie)
        IN  response.status = 200
            => /\ Len(response.body) = 1
               /\ DOMAIN response.body[1] = {"id", "name", "email", "phone"}
               /\ \E s \in sessionFind(presentedToken(header, cookie)) :
                     /\ response.body[1].id = users[s.userId].id
                     /\ response.body[1].name = users[s.userId].name
                     /\ response.body[1].email = users[s.userId].email
                     /\ response.body[1].phone = users[s.userId].phone
               /\ response.cookie = NoCookie

C17_Witness ==
    /\ res.route = "check-session"
    /\ res.status = 200
    /\ users[res.body[1].id].sm8Uuid # Null
    /\ "sm8Uuid" \notin DOMAIN res.body[1]
    /\ "password" \notin DOMAIN res.body[1]

\* C18: a login answered 200 leaves the user's sm8Uuid at the UUID the
\* lookup resolved, whatever it was before, and no other user's row
\* changed; a login of a user whose sm8Uuid already is the UUID the lookup
\* resolves leaves every User row as it is.
C18_LoginOverwritesSm8Uuid ==
    \A found \in UserIds, password \in Passwords :
        /\ \A reply \in ContactReplies :
              LET out == login(found, password, reply)
              IN  out.res.status = 200
                  => /\ out.users[found].sm8Uuid = clientUuid(reply)
                     /\ \A v \in UserIds \ {found} : out.users[v] = users[v]
        /\ \A c \in Sm8Uuids :
              users[found].sm8Uuid = c
              => login(found, password, Json(<<Contact(c)>>)).users = users

C18_Witness ==
    /\ res.route = "login"
    /\ res.status = 200
    /\ \E s1, s2 \in sessions :
          /\ s1.userId = s2.userId
          /\ s1.token.sm8Uuid # s2.token.sm8Uuid
          /\ s2.token = res.cookie.value
          /\ users[s2.userId].sm8Uuid = s2.token.sm8Uuid

----------------------------------------------------------------------------
(* Properties of the booking routes, checked under SpecBookings            *)

\* The fetch was answered: a response arrived, and an OK one parses.
Answered(reply) == reply.net = "response" /\ (reply.ok => reply.parse)

\* C15: the job listing for a user whose sm8Uuid is unset answers 400 and
\* calls nothing; for an authenticated user with sm8Uuid set, a job query
\* answered OK and attachment fetches that are answered, it answers 200
\* with the jobs of the job query in their order, each with its attachment
\* list, which is empty where the attachment fetch answered non-OK.
C15_JobListing ==
    /\ \A u \in UserIds, reply \in JobListReplies :
          \A attachments \in [1..JobCount(reply) -> AttachmentReplies] :
              LET out == getJobsHandler([users[u] EXCEPT !.sm8Uuid = Null],
                                        reply, attachments)
              IN  /\ out.status = 400
                  /\ out.extCalls = 0
    /\ \A cookie \in CookieValues, jobs \in JobLists :
          Authenticated(cookie)
          => \A attachments \in [1..Len(jobs) -> {r \in AttachmentReplies : Answered(r)}] :
                LET out == getJobs(cookie, Json(jobs), attachments)
                IN  /\ out.status = 200
                    /\ Len(out.body) = Len(jobs)
                    /\ \A k \in 1..Len(jobs) :
                          /\ out.body[k].uuid = jobs[k].uuid
                          /\ out.body[k].attachments =
                                IF attachments[k].ok THEN attachments[k].data ELSE <<>>

C15_Witness ==
    /\ res.route = "get-jobs"
    /\ res.status = 200
    /\ res.extCalls = 3
    /\ Len(res.body) = 2
    /\ res.body[1].uuid = "job-1"
    /\ res.body[1].attachments = <<>>
    /\ res.body[2].attachments # <<>>

\* C16: view-attachment by an authenticated user answers an upstream
\* non-OK response with the upstream status and the upstream body, and an
\* upstream OK response with the upstream bytes under the upstream content
\* type, or application/octet-stream when upstream names none.
C16_ViewAttachmentPassesThrough ==
    \A cookie \in CookieValues, reply \in FileReplies :
        (Authenticated(cookie) /\ reply.net = "response")
        => LET out == viewAttachment(cookie, reply)
           IN  IF ~reply.ok
               THEN /\ out.status = reply.status
                    /\ out.body = reply.data
               ELSE /\ out.status = 200
                    /\ out.body.bytes = reply.data
                    /\ out.body.contentType =
                          IF reply.contentType \in {Null, ""}
                          THEN "application/octet-stream"
                          ELSE reply.contentType

C16_Witness ==
    /\ res.route = "view-attachment"
    /\ res.by = "handler"
    /\ res.status = 404
    /\ res.body = "not found"

\* The routes behind authMiddleware.
ProtectedRoutes ==
    {"send-message", "get-messages", "list-messages", "view-attachment", "get-jobs"}

\* C20: a request to a protected route with the token of a live session in
\* an Authorization: Bearer header and no cookie is answered 401 by
\* authMiddleware, and no handler runs.
C20_MiddlewareReadsCookieOnly ==
    \A t \in issued :
        Authenticated(t)
        => LET token == cookieToken([scheme |-> "Bearer", token |-> t], NoToken)
           IN  /\ \A route \in ProtectedRoutes :
                     /\ ~protected(route, token).next
                     /\ Rejected(protected(route, token).res)
               /\ \A reply \in FileReplies : Rejected(viewAttachment(token, reply))
               /\ \A reply \in JobListReplies :
                     \A attachments \in [1..JobCount(reply) -> AttachmentReplies] :
                         Rejected(getJobs(token, reply, attachments))

C20_Witness ==
    /\ res.route \in {"view-attachment", "get-jobs"}
    /\ res.by = "authMiddleware"
    /\ res.status = 401
    /\ res.error = "Unauthorized: No token provided"
    /\ \E t \in issued : Authenticated(t)

----------------------------------------------------------------------------
(* Properties of the token sources, checked under Spec                     *)

\* C21: check-session verifies the token of a Bearer header when there is
\* one, whatever the cookie holds, and the cookie when there is no header
\* or a header of another scheme: it answers 200, with the profile of that
\* token's session, exactly when that token verifies and has a Session row.
C21_CheckSessionTokenSource ==
    \A header \in Headers, cookie \in CookieValues :
        LET response == checkSession(header, cookie)
            chosen == IF header.scheme = "Bearer" THEN header.token ELSE cookie
        IN  /\ response.status = 200
                <=> (jwtVerify(chosen, now) /\ sessionFind(chosen) # {})
            /\ response.status = 200
                => \E s \in sessionFind(chosen) : response.body[1].id = s.userId

C21_Witness ==
    /\ res.route = "check-session"
    /\ res.status = 200
    /\ \E live, dead \in issued :
          /\ checkSession(NoHeader, live).status = 200
          /\ checkSession([scheme |-> "Bearer", token |-> live], dead).status = 200
          /\ checkSession([scheme |-> "Bearer", token |-> dead], live).status = 401
          /\ checkSession([scheme |-> "Basic", token |-> dead], live).status = 200

----------------------------------------------------------------------------
(* Properties of a session without a ServiceM8 UUID, checked under         *)
(* SpecCarried                                                             *)

\* C22: a request with the cookie of a session whose user has no sm8Uuid
\* passes authMiddleware with that user attached, on every protected route;
\* the user's send-message with a message and a returned booking persists
\* the row, and both listings answer 200.
C22_UnlinkedUserPassesMiddleware ==
    \A cookie \in CookieValues :
        \A s \in sessionFind(cookie) :
            users[s.userId].sm8Uuid = Null
            => /\ \A route \in ProtectedRoutes :
                     /\ protected(route, cookie).next
                     /\ protected(route, cookie).user = users[s.userId]
               /\ \A uuid \in BookingUuids, reply \in {r \in JobReplies : ReturnsJob(r)} :
                     LET out == sendMessage(cookie, uuid, "hello", reply)
                     IN  /\ out.res.status = 200
                         /\ Len(out.bookingMessages) = Len(bookingMessages) + 1
                         /\ out.res.body[1].userId = s.userId
               /\ \A response \in listMessages(cookie) : response.status = 200
               /\ \A uuid \in BookingUuids :
                     \A response \in getMessages(cookie, uuid) : response.status = 200

C22_Witness ==
    /\ res.route = "list-messages"
    /\ res.status = 200
    /\ Len(res.body) = 1
    /\ Len(bookingMessages) > 0
    /\ \A s \in sessions : users[s.userId].sm8Uuid = Null

----------------------------------------------------------------------------
(* A further property of the grouped listing, checked under SpecMessages   *)

\* C23: in the grouped listing of an authenticated user, the entry of each
\* booking carries the bookingDescription of a message of that user on the
\* booking that no other such message is newer than, and the bookings come
\* in non-increasing order of the createdAt of their newest message.
C23_GroupedNewestFirst ==
    \A cookie \in CookieValues :
        \A s \in sessionFind(cookie) :
            \A response \in listMessages(cookie) :
                LET body == response.body
                    mine(uuid) == {i \in 1..Len(bookingMessages) :
                                     /\ bookingMessages[i].userId = s.userId
                                     /\ bookingMessages[i].bookingUuid = uuid}
                    newest(uuid) == {i \in mine(uuid) :
                                       \A j \in mine(uuid) :
                                          bookingMessages[j].createdAt
                                            <= bookingMessages[i].createdAt}
                IN  /\ \A k \in 1..Len(body) :
                          \E i \in newest(body[k].bookingUuid) :
                              body[k].bookingDescription
                                = bookingMessages[i].bookingDescription
                    /\ \A a, b \in 1..Len(body) :
                          a < b
                          => \A i \in newest(body[a].bookingUuid),
                                j \in newest(body[b].bookingUuid) :
                                  bookingMessages[i].createdAt
                                    >= bookingMessages[j].createdAt

C23_Witness ==
    /\ res.route = "list-messages"
    /\ res.status = 200
    /\ Len(res.body) = 1
    /\ Len(bookingMessages) = 2
    /\ bookingMessages[1].userId = bookingMessages[2].userId
    /\ bookingMessages[1].createdAt < bookingMessages[2].createdAt
    /\ bookingMessages[1].bookingDescription # bookingMessages[2].bookingDescription
    /\ res.body[1].bookingDescription = bookingMessages[2].bookingDescription

----------------------------------------------------------------------------
(* The two lifetimes, checked under SpecApi                                *)

\* C25: while a token's embedded expiry and its Session row's expiresAt
\* have passed and the row still exists, authMiddleware lets the cookie
\* through on every protected route with the session's user attached, and
\* check-session answers the same token 401, from the header and from the
\* cookie.
C25_ExpiredTokenStillAuthenticates ==
    \A t \in issued :
        \A s \in sessionFind(t) :
            now >= t.exp
            => /\ now >= s.expiresAt
               /\ \A route \in ProtectedRoutes :
                     /\ protected(route, t).next
                     /\ protected(route, t).user = users[s.userId]
               /\ checkSession(NoHeader, t).status = 401
               /\ checkSession([scheme |-> "Bearer", token |-> t], NoToken).status = 401

C25_Witness ==
    /\ res.route = "send-message"
    /\ res.status = 200
    /\ res.body[1].createdAt = now
    /\ sessions # {}
    /\ \A s \in sessions : now >= s.token.exp /\ now >= s.expiresAt
    /\ \A s \in sessions : checkSession(NoHeader, s.token).status = 401

----------------------------------------------------------------------------
(* Frame and failure properties of login and logout                        *)

\* C26: a login for an identifier no user has, or with a wrong password,
\* is answered 404, and one whose contact lookup is answered non-OK is
\* answered 500; each leaves the User rows and the Session rows as they
\* were and sets no cookie.
C26_FailedLoginLeavesStore ==
    \A identifier \in Identifiers, password \in Passwords \ {Undefined} :
        \A found \in Found(identifier), reply \in ContactReplies :
            LET out == login(found, password, reply)
                unknownUser == found = 0
                wrongPassword == found # 0 /\ ~bcryptCompare(password, users[found].password)
                lookupNotOk == /\ found # 0
                               /\ bcryptCompare(password, users[found].password)
                               /\ reply.net = "response"
                               /\ ~reply.ok
            IN  /\ (unknownUser \/ wrongPassword) => out.res.status = 404
                /\ lookupNotOk => out.res.status = 500
                /\ (unknownUser \/ wrongPassword \/ lookupNotOk)
                    => /\ out.users = users
                       /\ out.sessions = sessions
                       /\ ~out.res.cookie.set

C26_Witness ==
    /\ res.route = "login"
    /\ res.status = 500
    /\ res.error = "Failed to verify user with ServiceM8"
    /\ ~res.cookie.set
    /\ sessions # {}
    /\ \E u \in UserIds : users[u].sm8Uuid # Null

\* C27: a logout with cookie T leaves every Session row of another token,
\* those of T's user included, every User row and every BookingMessage as
\* they were, and each remaining session passes authMiddleware after it.
C27_LogoutLeavesOtherSessions ==
    [][\A cookie \in CookieValues :
          LogoutReq(cookie)
          => /\ sessions' \subseteq sessions
             /\ \A s \in sessions : s.token # cookie => s \in sessions'
             /\ users' = users
             /\ bookingMessages' = bookingMessages
             /\ \A s \in sessions :
                   s.token # cookie
                   => \A route \in ProtectedRoutes :
                         /\ protected(route, s.token).next'
                         /\ protected(route, s.token).user' = users[s.userId]]_vars

C27_Witness ==
    /\ res.route = "logout"
    /\ res.status = 200
    /\ Len(bookingMessages) > 0
    /\ \E s \in sessions, t \in Revoked :
          /\ users[s.userId].sm8Uuid = t.sm8Uuid
          /\ protected("send-message", s.token).next

\* C29: a login with the right password whose resolved UUID no other user
\* holds, but whose token is already a Session row's, is answered 500 with
\* the user's sm8Uuid already written, no Session row added and no cookie
\* set.
C29_LoginNotAtomic ==
    \A found \in UserIds, password \in Passwords, c \in Sm8Uuids :
        (/\ bcryptCompare(password, users[found].password)
         /\ ~userUpdateConflict(found, c)
         /\ sessionCreateConflict(jwtSign(c, now)))
        => LET out == login(found, password, Json(<<Contact(c)>>))
           IN  /\ out.res.status = 500
               /\ out.res.error = InternalError
               /\ out.users[found].sm8Uuid = c
               /\ \A v \in UserIds \ {found} : out.users[v] = users[v]
               /\ out.sessions = sessions
               /\ ~out.res.cookie.set

\* A user is linked to a company although no login of that user was ever
\* answered 200: only the failed login wrote the UUID.
C29_Witness ==
    /\ res.route = "login"
    /\ res.status = 500
    /\ res.extCalls = 1
    /\ Revoked = {}
    /\ \E u \in UserIds :
          /\ users[u].sm8Uuid # Null
          /\ \A s \in sessions : s.userId # u

\* C30: no two users hold the same non-null sm8Uuid; a login with the
\* right password that resolves a UUID another user holds is answered 500,
\* adds no Session row, sets no cookie and leaves every User row as it was.
C30_Sm8UuidUnique ==
    /\ \A u, v \in UserIds :
          (u # v /\ users[u].sm8Uuid # Null) => users[u].sm8Uuid # users[v].sm8Uuid
    /\ \A found \in UserIds, password \in Passwords, c \in Sm8Uuids :
          (/\ bcryptCompare(password, users[found].password)
           /\ \E v \in UserIds \ {found} : users[v].sm8Uuid = c)
          => LET out == login(found, password, Json(<<Contact(c)>>))
             IN  /\ out.res.status = 500
                 /\ out.sessions = sessions
                 /\ out.users = users
                 /\ ~out.res.cookie.set

C30_Witness ==
    /\ res.route = "login"
    /\ res.status = 500
    /\ res.extCalls = 1
    /\ users[1].sm8Uuid # Null
    /\ users[2].sm8Uuid = Null
    /\ \A s \in sessions : s.token.iat < now

----------------------------------------------------------------------------
(* Exceptions, checked under SpecFaults                                    *)

\* The answer of a catch block.
Caught(response) ==
    /\ response.status = 500
    /\ response.error = InternalError

\* C24: while the database rejects its calls, every route that reaches a
\* store call and authMiddleware answer 500 'Internal server error' and
\* change nothing; a rejected or malformed external answer to login,
\* send-message and the job listing is answered the same way; and no run
\* of authMiddleware ends without either a response or next().
C24_ExceptionsBecome500 ==
    /\ db = "down"
        => /\ \A found \in UserIds \cup {0}, password \in Passwords :
                 LET out == login(found, password, NoReply)
                 IN  Caught(out.res) /\ out.users = users /\ out.sessions = sessions
           /\ \A cookie \in CookieValues :
                 Truthy(cookie)
                 => /\ Caught(logout(cookie).res)
                    /\ logout(cookie).sessions = sessions
                    /\ \A route \in ProtectedRoutes :
                          /\ ~authMiddleware(route, cookie).next
                          /\ Caught(authMiddleware(route, cookie).res)
           /\ \A header \in Headers, cookie \in CookieValues :
                 jwtVerify(presentedToken(header, cookie), now)
                 => Caught(checkSession(header, cookie))
           /\ \A u \in UserIds, uuid \in BookingUuids :
                 /\ \A reply \in {r \in JobReplies : ReturnsJob(r)} :
                       LET out == sendMessageHandler(users[u], uuid, "hello", reply)
                       IN  Caught(out.res) /\ out.bookingMessages = bookingMessages
                 /\ \A response \in getMessagesHandler(uuid) : Caught(response)
                 /\ \A response \in listMessagesHandler(users[u]) : Caught(response)
    /\ db = "up"
        => \A u \in UserIds :
              /\ \A password \in Passwords, reply \in {NetReject, BadJson, Json(<<>>)} :
                    bcryptCompare(password, users[u].password)
                    => Caught(login(u, password, reply).res)
              /\ \A uuid \in BookingUuids, reply \in {NetReject, HttpError(404, NoJob)} :
                    LET out == sendMessageHandler(users[u], uuid, "hello", reply)
                    IN  Caught(out.res) /\ out.bookingMessages = bookingMessages
              /\ users[u].sm8Uuid # Null
                    => /\ \A reply \in {NetReject, BadJson} :
                             Caught(getJobsHandler(users[u], reply, <<>>))
                       /\ \A jobs \in JobLists :
                             \A attachments \in [1..Len(jobs) -> AttachmentReplies] :
                                (\E k \in 1..Len(jobs) :
                                    fetchBookingAttachmentsThrows(attachments[k]))
                                => Caught(getJobsHandler(users[u], Json(jobs), attachments))
    /\ \A route \in ProtectedRoutes, cookie \in CookieValues :
          authMiddleware(route, cookie).next \/ authMiddleware(route, cookie).res.status # 0

C24_Witness ==
    /\ db = "down"
    /\ res.route = "send-message"
    /\ res.by = "authMiddleware"
    /\ Caught(res)
    /\ Len(bookingMessages) > 0
    /\ sessions # {}

----------------------------------------------------------------------------
(* Logout against a request on its way, checked under SpecRace             *)

\* C28: while no Session row holds a token that was issued, a request
\* with it as cookie is answered 401 by authMiddleware on every protected
\* route; a run of authMiddleware that looks the cookie up after its row
\* was deleted answers 401 and ends the request; a request that passed both
\* runs before the delete still gets its handler's answer.
C28_LogoutAgainstRequestInFlight ==
    [][/\ \A t \in Revoked, route \in ProtectedRoutes :
             /\ ~protected(route, t).next
             /\ Rejected(protected(route, t).res)
       /\ (/\ flight.pc \in {"mounted", "route"}
           /\ flight' # flight
           /\ sessionFind(flight.cookie) = {})
          => /\ flight'.pc = "idle"
             /\ res'.status = 401
             /\ res'.by = "authMiddleware"
       /\ (flight.pc = "handler" /\ flight' # flight)
          => /\ flight'.pc = "done"
             /\ res'.status = 200
             /\ res'.by = "handler"]_vars

\* The listing was answered 200 to a request whose session a logout had
\* deleted after both middleware runs.
C28_Witness ==
    /\ flight.pc = "done"
    /\ res.route = "list-messages"
    /\ res.status = 200
    /\ res.by = "handler"
    /\ flight.cookie \in Revoked
    /\ Len(res.body) > 0

====
